---- MODULE Spec2Model ----
(***************************************************************************)
(* Stockvenant: the data engine under the calculator UI.                   *)
(*                                                                         *)
(*   core/data_store.py      DataStore (dataset, symbols, date range,      *)
(*                           signals)                                      *)
(*   core/calculator.py      StockCalculator (validation, price lookup,    *)
(*                           single and batch trades)                      *)
(*   utils/logics.py         the stand-alone trade path (as-of lookup)     *)
(*   dataloader/data_manager.py + ui/main_window.py                        *)
(*                           fragment cache, re-merge and hot reload       *)
(*                                                                         *)
(* A pandas DataFrame is a record [kind, cols, rows]:                      *)
(*   kind  "cols"    Date is an ordinary column (raw input, master_df)     *)
(*   kind  "dated"   Date is a column that holds parsed timestamps         *)
(*         "indexed" Date is the index (what the store holds)              *)
(*         "nodate"  there is no Date column and no date index             *)
(*         "missing" the file does not exist (read_csv raises)             *)
(*         "none"    Python None                                           *)
(*   cols  the non-date columns, in column order                           *)
(*   rows  the rows in row order, each [Date, v] with v a function from    *)
(*         the column names to cells                                       *)
(* A date is 1..MaxDate; NaT (0) is an unparsable or missing date.  A cell *)
(* is a price, NaN (missing) or Garbage (text that is not a number).       *)
(***************************************************************************)
EXTENDS Integers, Sequences, FiniteSets, TLC

\* ---------------------------------------------------------------- bounds
MaxDate == 3
MaxRows == 2
MaxOps == 2
MaxText == 3

\* ------------------------------------------------------------ vocabulary
NaT == 0
NaN == 0 - 1
Garbage == 0 - 2
NoneTs == 0 - 1

Dates == 1..MaxDate
\* two prices are enough to tell an old value from a new one
Prices == {1, 2}
Symbols == {"A", "B"}

Range(s) == {s[i] : i \in 1..Len(s)}

NoFrame == [kind |-> "none", cols |-> <<>>, rows |-> <<>>]
EmptyDataFrame == [kind |-> "nodate", cols |-> <<>>, rows |-> <<>>]
MissingFile == [kind |-> "missing", cols |-> <<>>, rows |-> <<>>]

\* DataFrame.empty: no rows or no columns at all
IsEmpty(f) == f.rows = <<>> \/ (f.kind \notin {"cols", "dated"} /\ f.cols = <<>>)

\* 'Date' in df.columns
HasDateColumn(f) == f.kind \in {"cols", "dated"}

\* ------------------------------------------------------- pandas helpers
\* pd.to_datetime(..., format='%d-%m-%Y', errors='coerce') on one cell
ToDatetime(c) == IF c \in Dates THEN c ELSE NaT

\* df.dropna(subset=['Date'])
RECURSIVE DropNaT(_)
DropNaT(rows) ==
  IF rows = <<>> THEN <<>>
  ELSE IF Head(rows).Date = NaT THEN DropNaT(Tail(rows))
       ELSE <<Head(rows)>> \o DropNaT(Tail(rows))

\* NaT sorts last (na_position='last')
SortKey(d) == IF d = NaT THEN MaxDate + 1 ELSE d

RECURSIVE InsertByDate(_, _)
InsertByDate(r, sorted) ==
  IF sorted = <<>> THEN <<r>>
  ELSE IF SortKey(r.Date) < SortKey(Head(sorted).Date)
       THEN <<r>> \o sorted
       ELSE <<Head(sorted)>> \o InsertByDate(r, Tail(sorted))

\* df.sort_values('Date') / df.sort_index(): ascending, equal dates keep
\* their input order
RECURSIVE SortByDate(_)
SortByDate(rows) ==
  IF rows = <<>> THEN <<>>
  ELSE InsertByDate(rows[Len(rows)], SortByDate(SubSeq(rows, 1, Len(rows) - 1)))

\* DataStore._clean_numeric_value
clean_numeric_value(value) ==
  IF value = NaN THEN NaN
  ELSE IF value = Garbage THEN NaN
  ELSE value

CleanRow(r) == [Date |-> r.Date, v |-> [c \in DOMAIN r.v |-> clean_numeric_value(r.v[c])]]
ParseRow(r) == [Date |-> ToDatetime(r.Date), v |-> r.v]

ParseRows(rows) == [i \in 1..Len(rows) |-> ParseRow(rows[i])]

CleanRows(rows) == [i \in 1..Len(rows) |-> CleanRow(rows[i])]

IndexOf(f) == [i \in 1..Len(f.rows) |-> f.rows[i].Date]
IndexDates(f) == {f.rows[i].Date : i \in 1..Len(f.rows)} \ {NaT}

SetMin(S) == CHOOSE x \in S : \A y \in S : x <= y
SetMax(S) == CHOOSE x \in S : \A y \in S : y <= x

\* ------------------------------------------------------------ DataStore
\* The store as a value: the three private fields and the signals emitted
\* by the call in progress.  A signal is delivered synchronously (direct
\* connection), so each emitted event records what a subscriber reads from
\* the store at that moment.
StoreInit == [df |-> NoFrame, symbols |-> <<>>, date_range |-> <<NoneTs, NoneTs>>,
              events |-> <<>>]

Emit(S, kind, payload, syms) ==
  [S EXCEPT !.events = Append(@, [kind |-> kind, payload |-> payload, syms |-> syms,
                                  df |-> S.df, symbols |-> S.symbols,
                                  date_range |-> S.date_range])]

\* self._df = df
SetDf(S, df) == [S EXCEPT !.df = df]

\* DataStore._extract_symbols
extract_symbols(S) ==
  [S EXCEPT !.symbols = IF S.df.kind = "none" THEN <<>> ELSE S.df.cols]

\* DataStore._update_date_range
update_date_range(S) ==
  [S EXCEPT !.date_range =
     IF S.df.kind = "none" \/ IsEmpty(S.df) THEN <<NoneTs, NoneTs>>
     ELSE IF IndexDates(S.df) = {} THEN <<NaT, NaT>>
     ELSE <<SetMin(IndexDates(S.df)), SetMax(IndexDates(S.df))>>]

\* parse dates, drop NaT rows, sort, set the index, clean the cells
\* (load_from_csv lines 55-64, update_data lines 102-113)
Normalize(f) ==
  [kind |-> "indexed", cols |-> f.cols,
   rows |-> CleanRows(SortByDate(DropNaT(ParseRows(f.rows))))]

\* a store that announces the data before it installs it
InstallAndNotify_emit_first(S, df, kind) ==
  LET S1 == Emit(S, kind, df, <<>>)
      S2 == update_date_range(extract_symbols(SetDf(S1, df)))
  IN  Emit(S2, "symbols_changed", NoFrame, S2.symbols)

\* "Update store" then "Notify subscribers" (lines 66-73, 115-122, 156-163)
InstallAndNotify(S, df, kind) ==
  LET S1 == update_date_range(extract_symbols(SetDf(S, df)))
      S2 == Emit(S1, kind, df, <<>>)
  IN  Emit(S2, "symbols_changed", NoFrame, S2.symbols)

\* a failure that returns False and tells no subscriber
Fail_silent(S) == [st |-> S, ret |-> FALSE]

\* the except branch: error_occurred.emit, return False
Fail(S) == [st |-> Emit(S, "error", NoFrame, <<>>), ret |-> FALSE]

\* DataStore.load_from_csv
load_from_csv(S, file) ==
  IF file.kind = "missing" \/ IsEmpty(file) \/ ~HasDateColumn(file)
  THEN Fail(S)
  ELSE [st |-> InstallAndNotify(S, Normalize(file), "loaded"), ret |-> TRUE]

\* an update that assigns self._df before it validates the input
update_data_assign_first(S, df) ==
  IF df.kind = "none" \/ IsEmpty(df) \/ ~HasDateColumn(df)
  THEN Fail(SetDf(S, df))
  ELSE [st |-> InstallAndNotify(S, Normalize(df), "updated"), ret |-> TRUE]

\* DataStore.update_data
update_data(S, df) ==
  IF df.kind = "none" \/ IsEmpty(df) \/ ~HasDateColumn(df)
  THEN Fail(S)
  ELSE [st |-> InstallAndNotify(S, Normalize(df), "updated"), ret |-> TRUE]

\* line 104, df['Date'] = pd.to_datetime(df['Date'], ...): the assignment
\* replaces the Date column of the frame object it was handed
to_datetime_in_place(f) ==
  [kind |-> "dated", cols |-> f.cols, rows |-> ParseRows(f.rows)]

\* the frame object passed to DataStore.update_data, as the call leaves it:
\* lines 95-100 raise before anything is assigned, line 103 skips a Date
\* column that holds timestamps already, lines 106-107 rebind the local name
\* to new frames
update_data_argument(df) ==
  IF df.kind = "none" \/ IsEmpty(df) \/ ~HasDateColumn(df) THEN df
  ELSE IF df.kind = "dated" THEN df
  ELSE to_datetime_in_place(df)

\* columns of a combine_first: the sorted union of both column lists
SortedCols(cs) ==
  (IF "A" \in cs THEN <<"A">> ELSE <<>>) \o (IF "B" \in cs THEN <<"B">> ELSE <<>>)

\* positions of date d in a frame's index
Positions(f, d) == {i \in 1..Len(f.rows) : f.rows[i].Date = d}

\* one cell of self.combine_first(other): self's value unless it is missing
CombineCell(self, other, i, j, c) ==
  LET x == IF i # 0 /\ c \in Range(self.cols) THEN self.rows[i].v[c] ELSE NaN
      y == IF j # 0 /\ c \in Range(other.cols) THEN other.rows[j].v[c] ELSE NaN
  IN  IF x # NaN THEN x ELSE y

CombineRow(self, other, d, i, j, cols) ==
  [Date |-> d, v |-> [c \in Range(cols) |-> CombineCell(self, other, i, j, c)]]

\* the pairs (i, j) of row positions an outer join on the index produces
\* for date d, as a sequence: every left row with every right row of that
\* date (0: the side has no row for d)
RECURSIVE SeqOfSet(_)
SeqOfSet(S) ==
  IF S = {} THEN <<>>
  ELSE LET m == SetMin(S) IN <<m>> \o SeqOfSet(S \ {m})

RECURSIVE Cross(_, _)
Cross(ls, rs) ==
  IF ls = <<>> THEN <<>>
  ELSE [k \in 1..Len(rs) |-> <<Head(ls), rs[k]>>] \o Cross(Tail(ls), rs)

JoinPairs(self, other, d) ==
  LET ls == SeqOfSet(Positions(self, d))
      rs == SeqOfSet(Positions(other, d))
  IN  Cross(IF ls = <<>> THEN <<0>> ELSE ls, IF rs = <<>> THEN <<0>> ELSE rs)

RECURSIVE JoinRows(_, _, _, _)
JoinRows(self, other, ds, cols) ==
  IF ds = <<>> THEN <<>>
  ELSE LET d == Head(ds)
           ps == JoinPairs(self, other, d)
       IN  [k \in 1..Len(ps) |-> CombineRow(self, other, d, ps[k][1], ps[k][2], cols)]
           \o JoinRows(self, other, Tail(ds), cols)

\* the index values of both frames, ascending, NaT last
JoinKeys(self, other) ==
  LET all == Range(IndexOf(self)) \cup Range(IndexOf(other))
  IN  SeqOfSet(all \ {NaT}) \o (IF NaT \in all THEN <<NaT>> ELSE <<>>)

\* self._df.combine_first(new_df) followed by sort_index()
combine_first(self, other) ==
  LET cols == SortedCols(Range(self.cols) \cup Range(other.cols))
  IN  [kind |-> "indexed", cols |-> cols,
       rows |-> IF IndexOf(self) = IndexOf(other)
                THEN SortByDate([i \in 1..Len(self.rows) |->
                                   CombineRow(self, other, self.rows[i].Date, i, i, cols)])
                ELSE JoinRows(self, other, JoinKeys(self, other), cols)]

\* lines 148-150: parse the Date column and make it the index
SetDateIndex(f) ==
  IF HasDateColumn(f)
  THEN [kind |-> "indexed", cols |-> f.cols, rows |-> ParseRows(f.rows)]
  ELSE f

\* DataStore.merge_with_new_data
merge_with_new_data(S, new_df) ==
  IF S.df.kind = "none" THEN update_data(S, new_df)
  ELSE IF new_df.kind = "none" THEN Fail(S)
  ELSE [st |-> InstallAndNotify(S, combine_first(S.df, SetDateIndex(new_df)), "updated"),
        ret |-> TRUE]

\* the frame object passed to merge_with_new_data, as the call leaves it:
\* line 149 assigns the parsed dates to its Date column, line 150 rebinds
\* the local name to the frame set_index returns
merge_with_new_data_argument(S, new_df) ==
  IF S.df.kind = "none" THEN update_data_argument(new_df)
  ELSE IF new_df.kind = "none" \/ ~HasDateColumn(new_df) THEN new_df
  ELSE to_datetime_in_place(new_df)

\* The frame object that the df property (lines 29-30: it returns
\* self._df itself) handed out before a call, as the call leaves it; own
\* says that the caller passed that very object as the argument.
\* update_data assigns to it only through the argument: lines 106-107
\* build new frames, lines 108-113 work on those, line 116 rebinds self._df
update_data_prior(S, df, own) ==
  IF own THEN update_data_argument(S.df) ELSE S.df

\* a merge that writes the combined rows into the frame it holds
merge_with_new_data_prior_in_place(S, new_df, own) ==
  merge_with_new_data(S, new_df).st.df

\* lines 153-157: combine_first and sort_index return new frames and
\* self._df is rebound to the result
merge_with_new_data_prior(S, new_df, own) ==
  IF own THEN merge_with_new_data_argument(S, S.df) ELSE S.df

\* DataStore.clear
clear(S) ==
  LET S1 == [S EXCEPT !.df = NoFrame, !.symbols = <<>>,
                      !.date_range = <<NoneTs, NoneTs>>]
      S2 == Emit(S1, "updated", EmptyDataFrame, <<>>)
  IN  Emit(S2, "symbols_changed", NoFrame, <<>>)

\* ------------------------------------------------------ StockCalculator
\* What a call yields: a TradeResult (kind "ok") or the exception raised.
Raise(kind) ==
  [kind |-> kind, stock |-> "", quantity |-> 0, purchase_date |-> NaT, sell_date |-> NaT,
   purchase_price |-> NaN, sell_price |-> NaN, purchase_total |-> 0, sell_total |-> 0,
   profit |-> 0]

\* a result whose profit is the price difference of one share
TradeResult_profit_per_share(stock, quantity, pd, sd, pp, sp) ==
  [kind |-> "ok", stock |-> stock, quantity |-> quantity, purchase_date |-> pd,
   sell_date |-> sd, purchase_price |-> pp, sell_price |-> sp,
   purchase_total |-> pp * quantity, sell_total |-> sp * quantity,
   profit |-> sp - pp]

\* lines 87-102 (utils.logics lines 126-140): the totals and the result
TradeResult(stock, quantity, pd, sd, pp, sp) ==
  [kind |-> "ok", stock |-> stock, quantity |-> quantity, purchase_date |-> pd,
   sell_date |-> sd, purchase_price |-> pp, sell_price |-> sp,
   purchase_total |-> pp * quantity, sell_total |-> sp * quantity,
   profit |-> sp * quantity - pp * quantity]

\* a price lookup yields a price (and, in utils.logics, the date used) or
\* the exception raised
Found(price, date) == [kind |-> "ok", price |-> price, date |-> date]
NotFound(kind) == [kind |-> kind, price |-> NaN, date |-> NaT]

\* StockCalculator._validate_inputs: "ok" or the exception raised
validate_inputs(S, stock, quantity, purchase_date, sell_date) ==
  IF stock = "" THEN "InputError"
  ELSE IF quantity <= 0 THEN "InputError"
  ELSE IF purchase_date >= sell_date THEN "InputError"
  ELSE IF S.date_range[1] # NoneTs
          /\ S.date_range[1] # NaT /\ purchase_date < S.date_range[1]
       THEN "InputError"
  ELSE IF S.date_range[1] # NoneTs
          /\ S.date_range[2] # NaT /\ sell_date > S.date_range[2]
       THEN "InputError"
  ELSE "ok"

\* StockCalculator._validate_inputs: which check raises ("ok": none)
validate_inputs_check(S, stock, quantity, purchase_date, sell_date) ==
  IF stock = "" THEN "symbol"
  ELSE IF quantity <= 0 THEN "quantity"
  ELSE IF purchase_date >= sell_date THEN "order"
  ELSE IF S.date_range[1] # NoneTs
          /\ S.date_range[1] # NaT /\ purchase_date < S.date_range[1]
       THEN "range"
  ELSE IF S.date_range[1] # NoneTs
          /\ S.date_range[2] # NaT /\ sell_date > S.date_range[2]
       THEN "range"
  ELSE "ok"

\* df.loc[date, stock] when date occurs once in the index
At(f, date, stock) == f.rows[CHOOSE i \in Positions(f, date) : TRUE].v[stock]

\* a lookup that falls back to the last row of the dataset, whatever its date
NearestRow_last_row(f, stock, target_date) ==
  LET valid == {i \in 1..Len(f.rows) : f.rows[i].Date # NaT}
  IN  IF valid = {} THEN NotFound("DataError")
      ELSE LET nearest_date == f.rows[SetMax(valid)].Date
           IN  IF Cardinality(Positions(f, nearest_date)) > 1 THEN NotFound("DataError")
               ELSE IF clean_numeric_value(At(f, nearest_date, stock)) = NaN
                    THEN NotFound("DataError")
               ELSE Found(At(f, nearest_date, stock), NoneTs)

\* lines 195-212: the row nearest before the target, whatever it holds
NearestRow(f, stock, target_date) ==
  LET valid == {i \in 1..Len(f.rows) :
                  f.rows[i].Date # NaT /\ f.rows[i].Date <= target_date}
  IN  IF valid = {} THEN NotFound("DataError")
      ELSE LET nearest_date == f.rows[SetMax(valid)].Date
           IN  IF Cardinality(Positions(f, nearest_date)) > 1 THEN NotFound("DataError")
               ELSE IF clean_numeric_value(At(f, nearest_date, stock)) = NaN
                    THEN NotFound("DataError")
               ELSE Found(At(f, nearest_date, stock), NoneTs)

\* StockCalculator._get_price_on_date (returns the price only)
get_price_on_date(f, stock, target_date) ==
  IF stock \notin Range(f.cols) THEN NotFound("DataError")
  ELSE IF Cardinality(Positions(f, target_date)) > 1 THEN NotFound("DataError")
  ELSE IF Positions(f, target_date) # {}
          /\ clean_numeric_value(At(f, target_date, stock)) # NaN
       THEN Found(At(f, target_date, stock), NoneTs)
  ELSE NearestRow(f, stock, target_date)

\* StockCalculator.compute_trade
compute_trade(S, stock, quantity, purchase_date, sell_date) ==
  IF validate_inputs(S, stock, quantity, purchase_date, sell_date) # "ok"
  THEN Raise("InputError")
  ELSE IF S.df.kind = "none" THEN Raise("DataError")
  ELSE IF stock \notin Range(S.df.cols) THEN Raise("DataError")
  ELSE LET p == get_price_on_date(S.df, stock, purchase_date)
           q == get_price_on_date(S.df, stock, sell_date)
       IN  IF p.kind # "ok" THEN Raise(p.kind)
           ELSE IF q.kind # "ok" THEN Raise(q.kind)
           ELSE TradeResult(stock, quantity, purchase_date, sell_date, p.price, q.price)

\* ---- requests whose dates carry a time of day
\* A datetime or pd.Timestamp argument is a day and a time of day: 0 is
\* midnight, 1 a later time of that day. Stamp orders such instants; the
\* dataset's index, its date range and a plain date are midnights.
TimesOfDay == {0, 1}
Stamp(day, tod) == IF day \in Dates \/ day = MaxDate + 1 THEN day * 2 + tod ELSE day

\* a TradeResult or exception with its two dates as instants
StampDates(r) ==
  [r EXCEPT !.purchase_date = Stamp(@, 0), !.sell_date = Stamp(@, 0)]

\* StockCalculator._validate_inputs with such arguments: isinstance(_, date)
\* holds for datetime and pd.Timestamp, line 141 compares the arguments as
\* they are and lines 146-150 compare pd.Timestamp(argument), time of day
\* included, with the midnights of date_range
validate_inputs_at(S, stock, quantity, p, ptod, s, stod) ==
  IF stock = "" THEN "InputError"
  ELSE IF quantity <= 0 THEN "InputError"
  ELSE IF Stamp(p, ptod) >= Stamp(s, stod) THEN "InputError"
  ELSE IF S.date_range[1] # NoneTs
          /\ S.date_range[1] # NaT /\ Stamp(p, ptod) < Stamp(S.date_range[1], 0)
       THEN "InputError"
  ELSE IF S.date_range[1] # NoneTs
          /\ S.date_range[2] # NaT /\ Stamp(s, stod) > Stamp(S.date_range[2], 0)
       THEN "InputError"
  ELSE "ok"

\* StockCalculator._get_price_on_date with such a target: an instant after
\* midnight is not in the index (line 187), and index <= target (line 195)
\* keeps the rows up to and including its day
get_price_on_date_at(f, stock, day, tod) ==
  IF tod = 0 THEN get_price_on_date(f, stock, day)
  ELSE IF stock \notin Range(f.cols) THEN NotFound("DataError")
  ELSE NearestRow(f, stock, day)

\* StockCalculator.compute_trade with such arguments: lines 79-80 keep the
\* time of day, lines 90-91 put the instants into the result
compute_trade_at(S, stock, quantity, p, ptod, s, stod) ==
  IF validate_inputs_at(S, stock, quantity, p, ptod, s, stod) # "ok"
  THEN Raise("InputError")
  ELSE IF S.df.kind = "none" THEN Raise("DataError")
  ELSE IF stock \notin Range(S.df.cols) THEN Raise("DataError")
  ELSE LET pp == get_price_on_date_at(S.df, stock, p, ptod)
           sp == get_price_on_date_at(S.df, stock, s, stod)
       IN  IF pp.kind # "ok" THEN Raise(pp.kind)
           ELSE IF sp.kind # "ok" THEN Raise(sp.kind)
           ELSE TradeResult(stock, quantity, Stamp(p, ptod), Stamp(s, stod),
                            pp.price, sp.price)

\* a batch that catches InputError only
Caught_input_only == {"InputError"}

\* the exceptions compute_multiple_trades catches
Caught == {"InputError", "DataError"}

\* StockCalculator.compute_multiple_trades: the dict built so far, and
\* whether an exception escaped the loop
RECURSIVE BatchLoop(_, _, _, _, _, _)
BatchLoop(S, stocks, quantity, purchase_date, sell_date, results) ==
  IF stocks = <<>> THEN [raised |-> FALSE, results |-> results]
  ELSE LET stock == Head(stocks)
           r == compute_trade(S, stock, quantity, purchase_date, sell_date)
           put == [k \in DOMAIN results \cup {stock} |->
                     IF k = stock THEN r ELSE results[k]]
       IN  IF r.kind = "ok" \/ r.kind \in Caught
           THEN BatchLoop(S, Tail(stocks), quantity, purchase_date, sell_date, put)
           ELSE [raised |-> TRUE, results |-> results]

compute_multiple_trades(S, stocks, quantity, purchase_date, sell_date) ==
  BatchLoop(S, stocks, quantity, purchase_date, sell_date, <<>>)

\* --------------------------------------------------------- utils.logics
\* a lookup that takes the first dated value instead of the last
AsOf_earliest(f, stock, ts) ==
  LET have == {f.rows[i].Date : i \in {j \in 1..Len(f.rows) : f.rows[j].v[stock] # NaN}}
      upto == {d \in have : d # NaT /\ d <= ts}
  IN  IF upto = {} THEN NaT ELSE SetMin(upto)

\* series.dropna() then index.asof(ts): the last date at or before ts at
\* which the symbol has a value
AsOf(f, stock, ts) ==
  LET have == {f.rows[i].Date : i \in {j \in 1..Len(f.rows) : f.rows[j].v[stock] # NaN}}
      upto == {d \in have : d # NaT /\ d <= ts}
  IN  IF upto = {} THEN NaT ELSE SetMax(upto)

\* utils.logics.get_price_on_or_before
get_price_on_or_before(f, stock, target_date) ==
  IF stock \notin Range(f.cols) THEN NotFound("InputError")
  ELSE LET actual_date == AsOf(f, stock, target_date)
           hits == {i \in Positions(f, actual_date) : f.rows[i].v[stock] # NaN}
       IN  IF actual_date = NaT THEN NotFound("InputError")
           ELSE IF Cardinality(hits) > 1 THEN NotFound("TypeError")
           ELSE Found(f.rows[CHOOSE i \in hits : TRUE].v[stock], actual_date)

\* utils.logics.compute_trade
logics_compute_trade(f, stock, quantity, purchase_date, sell_date) ==
  IF quantity <= 0 THEN Raise("InputError")
  ELSE IF sell_date < purchase_date THEN Raise("InputError")
  ELSE LET p == get_price_on_or_before(f, stock, purchase_date)
           q == get_price_on_or_before(f, stock, sell_date)
       IN  IF p.kind # "ok" THEN Raise(p.kind)
           ELSE IF q.kind # "ok" THEN Raise(q.kind)
           ELSE TradeResult(stock, quantity, p.date, q.date, p.price, q.price)

\* utils.logics.compute_trade: which check raises its InputError ("ok":
\* none; "price": the lookup found no price at or before the date)
logics_compute_trade_check(f, stock, quantity, purchase_date, sell_date) ==
  IF quantity <= 0 THEN "quantity"
  ELSE IF sell_date < purchase_date THEN "order"
  ELSE IF stock \notin Range(f.cols) THEN "symbol"
  ELSE IF AsOf(f, stock, purchase_date) = NaT \/ AsOf(f, stock, sell_date) = NaT
       THEN "price"
  ELSE "ok"

\* a conversion that normalizes every argument
to_ts_normalize_all(is_timestamp, tod) == 0

\* utils.logics._to_ts: the time of day it leaves; only a pd.Timestamp is
\* normalized, pd.Timestamp(d) of a datetime keeps the time
to_ts(is_timestamp, tod) == IF is_timestamp THEN 0 ELSE tod

\* utils.logics.compute_trade with dates that carry a time of day: the
\* order check (line 120) compares what _to_ts returned, while
\* get_price_on_or_before passes that pd.Timestamp through _to_ts again
\* (line 90), which normalizes it
logics_compute_trade_at(f, stock, quantity, p, ptod, s, stod, is_timestamp) ==
  IF quantity <= 0 THEN Raise("InputError")
  ELSE IF Stamp(s, to_ts(is_timestamp, stod)) < Stamp(p, to_ts(is_timestamp, ptod))
       THEN Raise("InputError")
  ELSE LET pp == get_price_on_or_before(f, stock, p)
           sp == get_price_on_or_before(f, stock, s)
       IN  IF pp.kind # "ok" THEN Raise(pp.kind)
           ELSE IF sp.kind # "ok" THEN Raise(sp.kind)
           ELSE TradeResult(stock, quantity, Stamp(pp.date, 0), Stamp(sp.date, 0),
                            pp.price, sp.price)

\* what load_dataset yields: the frame returned or the exception raised,
\* and whether pd.read_csv was called
Loaded(kind, f, read) == [kind |-> kind, df |-> f, read |-> read]

\* a load that caches the frame as soon as it has been read
logics_load_dataset_cache_first(cache, file) ==
  IF cache.kind # "none" THEN [cache |-> cache, out |-> Loaded("ok", cache, FALSE)]
  ELSE IF file.kind = "missing"
  THEN [cache |-> cache, out |-> Loaded("DataError", NoFrame, TRUE)]
  ELSE LET f == Normalize(file)
       IN  IF ~HasDateColumn(file) \/ f.rows = <<>>
              \/ \A c \in Range(f.cols) : \A i \in 1..Len(f.rows) : f.rows[i].v[c] = NaN
           THEN [cache |-> f, out |-> Loaded("DataError", NoFrame, TRUE)]
           ELSE [cache |-> f, out |-> Loaded("ok", f, TRUE)]

\* utils.logics.load_dataset: the cache it leaves and what it yields.
\* Line 36 returns the cache when it is set. Else the file is read; an
\* empty file makes read_csv raise EmptyDataError, which is not caught.
\* Lines 44-50 reject a file without Date column or without a date that
\* parses; lines 52-63 drop the undated rows, index and sort by date and
\* make every cell a number or NaN, which on the cells of a frame is what
\* Normalize does; lines 65-66 reject a frame whose columns are all NaN;
\* line 69 sets the cache.
logics_load_dataset(cache, file) ==
  IF cache.kind # "none" THEN [cache |-> cache, out |-> Loaded("ok", cache, FALSE)]
  ELSE IF file.kind = "missing"
  THEN [cache |-> cache, out |-> Loaded("DataError", NoFrame, TRUE)]
  ELSE IF file.cols = <<>> /\ file.rows = <<>> /\ ~HasDateColumn(file)
  THEN [cache |-> cache, out |-> Loaded("EmptyDataError", NoFrame, TRUE)]
  ELSE IF ~HasDateColumn(file)
  THEN [cache |-> cache, out |-> Loaded("DataError", NoFrame, TRUE)]
  ELSE LET f == Normalize(file)
       IN  IF f.rows = <<>>
           THEN [cache |-> cache, out |-> Loaded("DataError", NoFrame, TRUE)]
           ELSE IF \A c \in Range(f.cols) : \A i \in 1..Len(f.rows) : f.rows[i].v[c] = NaN
           THEN [cache |-> cache, out |-> Loaded("DataError", NoFrame, TRUE)]
           ELSE [cache |-> f, out |-> Loaded("ok", f, TRUE)]

\* ---------------------------------------------------------- DataManager
\* data_cache is a dict: the cached fragments in insertion order
ManagerInit == [data_cache |-> <<>>, master_df |-> NoFrame, events |-> <<>>,
                merged |-> <<>>]

CacheKeys(cache) == [i \in 1..Len(cache) |-> cache[i].symbol]

\* self.data_cache[symbol] = data
CachePut(cache, symbol, data) ==
  IF symbol \in Range(CacheKeys(cache))
  THEN [i \in 1..Len(cache) |->
          IF cache[i].symbol = symbol THEN [symbol |-> symbol, data |-> data] ELSE cache[i]]
  ELSE Append(cache, [symbol |-> symbol, data |-> data])

\* data[['Date', col]]
Project(f, col) ==
  [kind |-> "cols", cols |-> <<col>>,
   rows |-> [i \in 1..Len(f.rows) |->
               [Date |-> f.rows[i].Date, v |-> [c \in {col} |-> f.rows[i].v[col]]]]]

\* pd.merge(merged, symbol_data, on='Date', how='outer')
OuterMerge(left, right) ==
  [kind |-> "cols", cols |-> left.cols \o right.cols,
   rows |-> JoinRows(left, right, JoinKeys(left, right), left.cols \o right.cols)]

\* lines 85-99: fold the usable cached fragments into one frame
RECURSIVE MergeLoop(_, _)
MergeLoop(cache, merged) ==
  IF cache = <<>> THEN merged
  ELSE LET symbol == Head(cache).symbol
           data == Head(cache).data
       IN  IF data.kind = "none" \/ IsEmpty(data)
              \/ ~HasDateColumn(data) \/ symbol \notin Range(data.cols)
           THEN MergeLoop(Tail(cache), merged)
           ELSE MergeLoop(Tail(cache),
                          IF merged.kind = "none" THEN Project(data, symbol)
                          ELSE OuterMerge(merged, Project(data, symbol)))

\* lines 101-106: parse, drop unparsable dates, sort, write the dates back
\* as DD-MM-YYYY text
FormatMaster(f) ==
  [kind |-> "cols", cols |-> f.cols,
   rows |-> SortByDate(DropNaT(ParseRows(f.rows)))]

\* a merge that keeps the master to itself
merge_symbol_data_no_emit(M) ==
  LET merged == MergeLoop(M.data_cache, NoFrame)
  IN  IF merged.kind # "none" /\ ~IsEmpty(merged)
      THEN [M EXCEPT !.master_df = FormatMaster(merged)]
      ELSE M

\* DataManager.merge_symbol_data: M.merged collects the frames passed to
\* merge_completed
merge_symbol_data(M) ==
  LET merged == MergeLoop(M.data_cache, NoFrame)
  IN  IF merged.kind # "none" /\ ~IsEmpty(merged)
      THEN [M EXCEPT !.master_df = FormatMaster(merged),
                     !.events = Append(@, "merge_completed"),
                     !.merged = Append(@, FormatMaster(merged))]
      ELSE M

\* lines 48-52 and 172-176: cache one fragment per symbol column of the
\* frame
RECURSIVE CacheColumns(_, _, _)
CacheColumns(cache, f, cols) ==
  IF cols = <<>> THEN cache
  ELSE CacheColumns(CachePut(cache, Head(cols), Project(f, Head(cols))), f, Tail(cols))

\* an update without the test for an empty fragment
DataManager_update_data_cache_any(M, symbol, data) ==
  IF ~HasDateColumn(data) \/ symbol \notin Range(data.cols)
  THEN [M EXCEPT !.events = Append(@, "error_occurred")]
  ELSE merge_symbol_data(
         [M EXCEPT !.data_cache = CachePut(@, symbol, data),
                   !.events = Append(@, "data_updated")])

\* an update that caches the fragment before it looks at its columns
DataManager_update_data_cache_first(M, symbol, data) ==
  IF IsEmpty(data) THEN M
  ELSE IF ~HasDateColumn(data) \/ symbol \notin Range(data.cols)
       THEN [M EXCEPT !.data_cache = CachePut(@, symbol, data),
                      !.events = Append(@, "error_occurred")]
  ELSE merge_symbol_data(
         [M EXCEPT !.data_cache = CachePut(@, symbol, data),
                   !.events = Append(@, "data_updated")])

\* DataManager.update_data (auto_merge_enabled is True, main_window.py
\* line 26). Lines 41-43 return on an empty fragment. Lines 47-56, the
\* fragment of several symbols: data[['Date', col]] raises KeyError into
\* the except branch when there is no Date column, else every other column
\* is cached as a fragment of its own and the cache is merged once, with
\* no data_updated. Lines 58-67, the fragment of one symbol.
DataManager_update_data(M, symbol, data) ==
  IF IsEmpty(data) THEN M
  ELSE IF symbol = "multiple"
       THEN IF ~HasDateColumn(data)
            THEN [M EXCEPT !.events = Append(@, "error_occurred")]
            ELSE merge_symbol_data(
                   [M EXCEPT !.data_cache = CacheColumns(@, data, data.cols)])
  ELSE IF ~HasDateColumn(data) \/ symbol \notin Range(data.cols)
       THEN [M EXCEPT !.events = Append(@, "error_occurred")]
  ELSE merge_symbol_data(
         [M EXCEPT !.data_cache = CachePut(@, symbol, data),
                   !.events = Append(@, "data_updated")])

\* MainWindow.on_dataloader_merge, the slot of merge_completed
on_dataloader_merge(S, merged_df) ==
  IF IsEmpty(merged_df) THEN [st |-> S, ret |-> TRUE]
  ELSE update_data(S, merged_df)

\* DataLoaderWidget.on_data_received with every slot it reaches: the
\* manager's update and, per merge_completed, the store's hot reload
RECURSIVE HotReloads(_, _)
HotReloads(r, frames) ==
  IF frames = <<>> THEN r
  ELSE HotReloads(on_dataloader_merge(r.st, Head(frames)), Tail(frames))

\* merge_completed hands the slot the frame object that the manager keeps
\* as master_df (data_manager.py lines 108-110 and 168-179), so the hot
\* reload's assignment to the Date column is made to master_df itself
AfterHotReload(M) ==
  IF M.merged = <<>> \/ IsEmpty(M.master_df) THEN M
  ELSE [M EXCEPT !.master_df = update_data_argument(@)]

on_data_received(S, M, data, symbol) ==
  LET M1 == IF IsEmpty(data) THEN M ELSE DataManager_update_data(M, symbol, data)
  IN  [mgr |-> AfterHotReload(M1),
       store |-> HotReloads([st |-> S, ret |-> TRUE], M1.merged)]

\* DataManager.load_master_from_csv
load_master_from_csv(M, file) ==
  IF file.kind = "missing" \/ IsEmpty(file) \/ ~HasDateColumn(file)
  THEN [M EXCEPT !.events = Append(@, "error_occurred")]
  ELSE [M EXCEPT !.master_df = file,
                 !.data_cache = CacheColumns(@, file, file.cols),
                 !.events = Append(@, "merge_completed"),
                 !.merged = Append(@, file)]

\* del self.data_cache[symbol]
CacheDel(cache, symbol) == SelectSeq(cache, LAMBDA e : e.symbol # symbol)

\* DataManager.clear_cache; symbol "" stands for the default None
clear_cache(M, symbol) ==
  IF symbol # ""
  THEN IF symbol \in Range(CacheKeys(M.data_cache))
       THEN merge_symbol_data([M EXCEPT !.data_cache = CacheDel(@, symbol)])
       ELSE M
  ELSE [M EXCEPT !.data_cache = <<>>, !.master_df = NoFrame,
                 !.events = Append(@, "cache_cleared")]

\* DataFrame.to_csv(index=False) writes a missing cell as an empty field
\* and a number in its shortest decimal form
to_csv_cell(v) ==
  IF v = NaN THEN ""
  ELSE IF v = 1 THEN "1.0"
  ELSE IF v = 2 THEN "2.0"
  ELSE "abc"

\* pd.read_csv reads an empty field as NaN, a decimal as a float and
\* leaves other text as it is
read_csv_cell(t) ==
  IF t = "" THEN NaN
  ELSE IF t = "1.0" THEN 1
  ELSE IF t = "2.0" THEN 2
  ELSE Garbage

\* a Date cell as to_csv writes it: text is written as it is, a timestamp
\* in ISO form (year first), which is no DD-MM-YYYY text, and NaT as an
\* empty field
to_csv_date(kind, d) ==
  IF kind = "dated" /\ d \in Dates THEN MaxDate + 1 + d ELSE d

\* the text of a frame: its header and one line per row
to_csv(f) ==
  [header |-> f.cols,
   lines |-> [i \in 1..Len(f.rows) |->
                [Date |-> to_csv_date(f.kind, f.rows[i].Date),
                 v |-> [c \in Range(f.cols) |-> to_csv_cell(f.rows[i].v[c])]]]]

\* pd.read_csv(filename) of such a text
read_csv(text) ==
  [kind |-> "cols", cols |-> text.header,
   rows |-> [i \in 1..Len(text.lines) |->
               [Date |-> text.lines[i].Date,
                v |-> [c \in Range(text.header) |-> read_csv_cell(text.lines[i].v[c])]]]]

\* DataManager.save_master_to_csv: whether it saved, and the file as
\* pd.read_csv will see it
save_master_to_csv(M) ==
  IF M.master_df.kind = "none" \/ IsEmpty(M.master_df)
  THEN [ret |-> FALSE, file |-> MissingFile]
  ELSE [ret |-> TRUE, file |-> read_csv(to_csv(M.master_df))]

\* --------------------------------------------------------------- inputs
Cells == Prices \cup {NaN}
RowsOver(cols) == [Date : 0..MaxDate, v : [Range(cols) -> Cells]]
SeqsUpTo(S, n) == UNION {[1..k -> S] : k \in 0..n}
FramesOver(kind, cols) ==
  {[kind |-> kind, cols |-> cols, rows |-> rs] : rs \in SeqsUpTo(RowsOver(cols), MaxRows)}

\* what a caller can hand to the store: a CSV file or a DataFrame with a
\* Date column (possibly with no other column), a missing file, an empty
\* DataFrame, a DataFrame without Date column
ColumnLists == {<<>>, <<"A">>, <<"B">>}
RawFrames == UNION {FramesOver("cols", cols) : cols \in ColumnLists}
NoDateFrame == [kind |-> "nodate", cols |-> <<"A">>,
                rows |-> <<[Date |-> NaT, v |-> [c \in {"A"} |-> 1]]>>]
Files == RawFrames \cup {MissingFile, EmptyDataFrame, NoDateFrame}
UpdateArgs == RawFrames \cup {EmptyDataFrame, NoDateFrame, NoFrame}
\* merge_with_new_data also takes a DataFrame that is already indexed by
\* date (line 148: the Date column is optional there)
IndexedFrames == UNION {FramesOver("indexed", cols) : cols \in ColumnLists \ {<<>>}}
MergeArgs == RawFrames \cup IndexedFrames \cup {EmptyDataFrame, NoFrame}

\* ---------------------------------------------------------------- state
VARIABLES
  df, symbols, date_range,   \* DataStore._df, _symbols, _date_range
  events,                    \* the signals the last DataStore call emitted
  call,                      \* the last DataStore call: method, argument,
                             \* return value, the store's and the manager's
                             \* fields before it
  ops,                       \* number of mutating calls made
  calc,                      \* the last calculator call and what it yielded
  data_cache, master_df,     \* DataManager.data_cache, master_df
  mgr_events,                \* the signals the last DataManager call emitted
  DF_CACHE,                  \* utils.logics._DF_CACHE
  load_call,                 \* the last utils.logics.load_dataset call: the
                             \* file, the cache before it, what it yielded
  stock_list,                \* CalculatorWidget.stock_list: its items and the
                             \* items the user has checked
  fetching                   \* where the GUI thread is: "" in the event loop,
                             \* else the symbol whose history it waits for
                             \* inside DataLoaderWidget.fetch_data

vars == <<df, symbols, date_range, events, call, ops, calc,
          data_cache, master_df, mgr_events, fetching, stock_list,
          DF_CACHE, load_call>>

\* the store's fields as one value, with no event emitted yet
Store == [df |-> df, symbols |-> symbols, date_range |-> date_range, events |-> <<>>]
Fields(S) == [df |-> S.df, symbols |-> S.symbols, date_range |-> S.date_range]
\* the manager's fields as one value
MFields == [data_cache |-> data_cache, master_df |-> master_df]

NoCalc == [fn |-> "none", stocks |-> <<>>, quantity |-> 0, purchase_date |-> NaT,
           sell_date |-> NaT, tod |-> <<0, 0>>, out |-> Raise("none")]

Init ==
  /\ df = StoreInit.df
  /\ symbols = StoreInit.symbols
  /\ date_range = StoreInit.date_range
  /\ events = <<>>
  /\ call = [op |-> "init", sym |-> "", arg |-> NoFrame, ok |-> TRUE,
             pre |-> Fields(StoreInit),
             mpre |-> [data_cache |-> ManagerInit.data_cache,
                       master_df |-> ManagerInit.master_df],
             own |-> FALSE, prior |-> StoreInit.df, arg_after |-> NoFrame]
  /\ ops = 0
  /\ calc = NoCalc
  /\ data_cache = ManagerInit.data_cache
  /\ master_df = ManagerInit.master_df
  /\ mgr_events = <<>>
  /\ fetching = ""
  /\ stock_list = [items |-> <<>>, checked |-> {}]
  /\ DF_CACHE = NoFrame
  /\ load_call = [file |-> NoFrame, before |-> NoFrame, out |-> Loaded("none", NoFrame, FALSE)]

\* CalculatorWidget's slot for one signal of the store. populate_stock_list
\* (lines 149-157) clears the list and adds data_store.symbols unchecked;
\* on_data_loaded (113-118) and on_symbols_changed (144-147) do just that,
\* on_data_updated (120-134) checks again what was checked before it
HandleEvent(W, e) ==
  IF e.kind \in {"loaded", "symbols_changed"}
  THEN [items |-> e.symbols, checked |-> {}]
  ELSE IF e.kind = "updated"
  THEN [items |-> e.symbols, checked |-> W.checked \cap Range(e.symbols)]
  ELSE W

\* the slots run in the order in which the store emits
RECURSIVE HandleEvents(_, _)
HandleEvents(W, es) ==
  IF es = <<>> THEN W ELSE HandleEvents(HandleEvent(W, Head(es)), Tail(es))

\* Every object of the application (store, calculator, manager, loader,
\* widgets) is used from the GUI thread only: main_window.py lines 18-43
\* build them there and no thread, timer thread or processEvents call
\* exists in the sources. A slot or handler therefore runs only when that
\* thread is in its event loop.
InEventLoop == fetching = ""

\* one call of a DataStore method: r is what the method leaves behind
StoreCall(op, arg, r, own, prior) ==
  /\ InEventLoop
  /\ ops < MaxOps
  /\ ops' = ops + 1
  /\ df' = r.st.df
  /\ symbols' = r.st.symbols
  /\ date_range' = r.st.date_range
  /\ events' = r.st.events
  /\ call' = [op |-> op, sym |-> "", arg |-> arg, ok |-> r.ret, pre |-> Fields(Store),
              mpre |-> MFields, own |-> own, prior |-> prior,
              arg_after |-> IF op = "update_data" THEN update_data_argument(arg)
                            ELSE IF op = "merge_with_new_data"
                                 THEN merge_with_new_data_argument(Store, arg)
                            ELSE arg]
  /\ calc' = NoCalc
  /\ stock_list' = HandleEvents(stock_list, r.st.events)
  /\ UNCHANGED <<data_cache, master_df, mgr_events, fetching, DF_CACHE, load_call>>

\* load_from_csv reads a new frame from the path (line 57) and clear only
\* rebinds self._df (line 235): neither is handed a frame object
LoadFromCsv ==
  \E file \in Files :
    StoreCall("load_from_csv", file, load_from_csv(Store, file), FALSE, df)
UpdateData ==
  \E f \in UpdateArgs :
    StoreCall("update_data", f, update_data(Store, f), FALSE,
              update_data_prior(Store, f, FALSE))
MergeWithNewData ==
  \E f \in MergeArgs :
    StoreCall("merge_with_new_data", f, merge_with_new_data(Store, f), FALSE,
              merge_with_new_data_prior(Store, f, FALSE))
Clear == StoreCall("clear", NoFrame, [st |-> clear(Store), ret |-> TRUE], FALSE, df)

\* a caller hands the store the frame object it got from DataStore.df
UpdateDataOwn ==
  /\ df.kind # "none"
  /\ StoreCall("update_data", df, update_data(Store, df), TRUE,
               update_data_prior(Store, df, TRUE))
MergeWithNewDataOwn ==
  /\ df.kind # "none"
  /\ StoreCall("merge_with_new_data", df, merge_with_new_data(Store, df), TRUE,
               merge_with_new_data_prior(Store, df, TRUE))

NextStore ==
  \/ LoadFromCsv \/ UpdateData \/ MergeWithNewData \/ Clear
  \/ UpdateDataOwn \/ MergeWithNewDataOwn
SpecStore == Init /\ [][NextStore]_vars

\* the dataset the application starts with: a CSV file with the symbol
\* column A
CalcFiles == FramesOver("cols", <<"A">>)

\* MainWindow.load_initial_data: the dataset is loaded into a store that
\* holds none
LoadDataset ==
  /\ df.kind = "none"
  /\ \E file \in CalcFiles :
       StoreCall("load_from_csv", file, load_from_csv(Store, file), FALSE, df)

\* ------------------------------------------------------ the hot reload
Manager == [data_cache |-> data_cache, master_df |-> master_df, events |-> <<>>,
            merged |-> <<>>]

\* what the loader delivers for a symbol: a frame with a Date column and
\* the symbol's column
Fragments(symbol) == FramesOver("cols", <<symbol>>)

\* YFinanceDataLoader.data_received reaches DataLoaderWidget.on_data_received
\* and every slot behind it; the GUI thread is back in its event loop after
Deliver(symbol, data) ==
  LET r == on_data_received(Store, Manager, data, symbol) IN
  /\ ops < MaxOps
  /\ ops' = ops + 1
  /\ df' = r.store.st.df
  /\ symbols' = r.store.st.symbols
  /\ date_range' = r.store.st.date_range
  /\ events' = r.store.st.events
  /\ data_cache' = r.mgr.data_cache
  /\ master_df' = r.mgr.master_df
  /\ mgr_events' = r.mgr.events
  /\ call' = [op |-> "on_data_received", sym |-> symbol, arg |-> data,
              ok |-> r.store.ret, pre |-> Fields(Store), mpre |-> MFields,
              own |-> FALSE, prior |-> update_data_prior(Store, data, FALSE),
              arg_after |-> data]
  /\ calc' = NoCalc
  /\ fetching' = ""
  /\ stock_list' = HandleEvents(stock_list, r.store.st.events)
  /\ UNCHANGED <<DF_CACHE, load_call>>

\* a fetch, from the click to the end of the slots, seen as one step
OnDataReceived ==
  /\ InEventLoop
  /\ \E symbol \in Symbols : \E data \in Fragments(symbol) : Deliver(symbol, data)

\* one call of a DataManager method with every slot it reaches: M1 is the
\* manager it leaves behind, each frame passed to merge_completed is hot
\* reloaded into the store
ManagerCall(op, symbol, arg, M1) ==
  LET r == HotReloads([st |-> Store, ret |-> TRUE], M1.merged) IN
  /\ InEventLoop
  /\ ops < MaxOps
  /\ ops' = ops + 1
  /\ df' = r.st.df
  /\ symbols' = r.st.symbols
  /\ date_range' = r.st.date_range
  /\ events' = r.st.events
  /\ data_cache' = M1.data_cache
  /\ master_df' = AfterHotReload(M1).master_df
  /\ mgr_events' = M1.events
  /\ call' = [op |-> op, sym |-> symbol, arg |-> arg, ok |-> r.ret,
              pre |-> Fields(Store), mpre |-> MFields,
              own |-> FALSE, prior |-> update_data_prior(Store, arg, FALSE),
              arg_after |-> arg]
  /\ calc' = NoCalc
  /\ stock_list' = HandleEvents(stock_list, r.st.events)
  /\ UNCHANGED <<fetching, DF_CACHE, load_call>>

\* a saved master file picked in the loader's "Load" dialog: a Date column
\* and the column of one symbol, at most one row
MasterFiles ==
  {f \in UNION {FramesOver("cols", <<s>>) : s \in Symbols} : Len(f.rows) <= 1}
  \cup {MissingFile}

\* DataLoaderWidget.load_from_csv
LoadMasterFromCsv ==
  \E file \in MasterFiles :
    ManagerCall("load_master_from_csv", "", file, load_master_from_csv(Manager, file))

\* DataManager.clear_cache(symbol) and DataManager.clear_cache()
ClearCache ==
  \E symbol \in Symbols \cup {""} :
    ManagerCall("clear_cache", symbol, NoFrame, clear_cache(Manager, symbol))

NextManager == LoadDataset \/ OnDataReceived \/ LoadMasterFromCsv \/ ClearCache \/ Clear
SpecManager == Init /\ [][NextManager]_vars

\* ------------------------------------------------- the calculator's runs
\* a requested symbol: a column, possibly not of this dataset, or empty
Stocks == {"A", "B", ""}
Quantities == {0, 1, 2}
\* a requested date: any day of the dataset's calendar or the day after
ReqDates == 1..(MaxDate + 1)
\* the symbol lists of a batch: distinct symbols, in any order
StockLists == {<<a>> : a \in Stocks} \cup {<<a, b>> : <<a, b>> \in {p \in Stocks \X Stocks : p[1] # p[2]}}

\* The calculator keeps no state between calls, so what a call yields does
\* not depend on the call before it: one call is recorded per dataset.
CalcCall(fn, stocks, quantity, purchase_date, sell_date, out) ==
  /\ InEventLoop
  /\ calc.fn = "none"
  /\ calc' = [fn |-> fn, stocks |-> stocks, quantity |-> quantity,
              purchase_date |-> purchase_date, sell_date |-> sell_date,
              tod |-> <<0, 0>>, out |-> out]
  /\ UNCHANGED <<df, symbols, date_range, events, call, ops,
                 data_cache, master_df, mgr_events, fetching, stock_list,
                 DF_CACHE, load_call>>

ComputeTrade ==
  \E stock \in Stocks, q \in Quantities, p \in ReqDates, s \in ReqDates :
    CalcCall("compute_trade", <<stock>>, q, p, s, compute_trade(Store, stock, q, p, s))

ComputeMultipleTrades ==
  \E stocks \in StockLists, q \in Quantities, p \in ReqDates, s \in ReqDates :
    CalcCall("compute_multiple_trades", stocks, q, p, s,
             compute_multiple_trades(Store, stocks, q, p, s))

GetPriceOnDate ==
  \E stock \in Stocks, t \in ReqDates :
    /\ df.kind = "indexed"
    /\ CalcCall("get_price_on_date", <<stock>>, 0, t, t, get_price_on_date(df, stock, t))

GetPriceOnOrBefore ==
  \E stock \in Stocks, t \in ReqDates :
    /\ df.kind = "indexed"
    /\ CalcCall("get_price_on_or_before", <<stock>>, 0, t, t,
                get_price_on_or_before(df, stock, t))

LogicsComputeTrade ==
  \E stock \in Stocks, q \in Quantities, p \in ReqDates, s \in ReqDates :
    /\ df.kind = "indexed"
    /\ CalcCall("logics_compute_trade", <<stock>>, q, p, s,
                logics_compute_trade(df, stock, q, p, s))

\* the quantity check does not look at the dates: one valid quantity
TimedQuantities == {1}

\* one call with dates that carry a time of day
CalcCallAt(fn, stock, quantity, p, ptod, s, stod, out) ==
  /\ InEventLoop
  /\ calc.fn = "none"
  /\ calc' = [fn |-> fn, stocks |-> <<stock>>, quantity |-> quantity,
              purchase_date |-> p, sell_date |-> s, tod |-> <<ptod, stod>>,
              out |-> out]
  /\ UNCHANGED <<df, symbols, date_range, events, call, ops,
                 data_cache, master_df, mgr_events, fetching, stock_list,
                 DF_CACHE, load_call>>

\* requests with datetime arguments, a time of day on either date
ComputeTradeAt ==
  \E stock \in Stocks, q \in TimedQuantities, p \in ReqDates, s \in ReqDates,
     ptod \in TimesOfDay, stod \in TimesOfDay :
    CalcCallAt("compute_trade_at", stock, q, p, ptod, s, stod,
               compute_trade_at(Store, stock, q, p, ptod, s, stod))

\* utils.logics.compute_trade with datetime or with pd.Timestamp arguments
LogicsComputeTradeAt ==
  \E stock \in Stocks, q \in TimedQuantities, p \in ReqDates, s \in ReqDates,
     ptod \in TimesOfDay, stod \in TimesOfDay, is_timestamp \in BOOLEAN :
    /\ df.kind = "indexed"
    /\ CalcCallAt(IF is_timestamp THEN "logics_compute_trade_timestamp"
                  ELSE "logics_compute_trade_datetime",
                  stock, q, p, ptod, s, stod,
                  logics_compute_trade_at(df, stock, q, p, ptod, s, stod, is_timestamp))

NextCalc ==
  \/ LoadDataset \/ Clear
  \/ ComputeTrade \/ ComputeMultipleTrades \/ GetPriceOnDate
  \/ GetPriceOnOrBefore \/ LogicsComputeTrade
SpecCalc == Init /\ [][NextCalc]_vars

\* the calculator's runs with dates that carry a time of day
NextTimed == LoadDataset \/ Clear \/ ComputeTradeAt \/ LogicsComputeTradeAt
SpecTimed == Init /\ [][NextTimed]_vars

\* ------------------------------------------------ the fetch, step by step
\* what ticker.history returns for a symbol, formatted by
\* _format_single_symbol: dates written with strftime, at most one row;
\* no row at all when nothing was found
HistoryFrames(symbol) ==
  {f \in Fragments(symbol) :
     Len(f.rows) <= 1 /\ \A i \in 1..Len(f.rows) : f.rows[i].Date \in Dates}

\* DataLoaderWidget.fetch_data up to the download: the click handler calls
\* loader.fetch_historical_data itself (line 177), which calls
\* ticker.history (yfinance_loader.py line 57) and waits for it
FetchData(symbol) ==
  /\ InEventLoop
  /\ ops < MaxOps
  /\ fetching' = symbol
  /\ UNCHANGED <<df, symbols, date_range, events, call, ops, calc,
                 data_cache, master_df, mgr_events, stock_list,
                 DF_CACHE, load_call>>

FetchClicked == \E symbol \in Symbols : FetchData(symbol)

\* ticker.history returns: an empty result is reported and dropped (lines
\* 59-62), anything else is formatted and emitted with data_received
HistoryReturns ==
  /\ ~InEventLoop
  /\ \E data \in HistoryFrames(fetching) : Deliver(fetching, data)

\* a calculator request of the user, which the event loop dispatches
Calculate ==
  \E p \in ReqDates, s \in ReqDates :
    CalcCall("compute_trade", <<"A">>, 1, p, s, compute_trade(Store, "A", 1, p, s))

NextFetch == FetchClicked \/ HistoryReturns \/ Calculate \/ Clear
SpecFetch == Init /\ [][NextFetch]_vars

\* ------------------------------------------- fragments for the manager
\* DataManager.update_data called with a fragment of any shape: with or
\* without rows, Date column and symbol column
ManagerUpdateData ==
  \E symbol \in Symbols \cup {"multiple"} :
    \E data \in {f \in RawFrames : Len(f.rows) <= 1} \cup {EmptyDataFrame, NoDateFrame} :
      ManagerCall("DataManager.update_data", symbol, data,
                  DataManager_update_data(Manager, symbol, data))

\* what the loader hands to on_data_received. fetch_historical_data
\* delivers the frame of one symbol under the symbol's name;
\* fetch_multiple_symbols delivers one frame under the name "multiple"
\* (yfinance_loader.py lines 115-125): the dates written with strftime and
\* a Close column for every symbol that had rows, never without a row
OnFetched ==
  /\ InEventLoop
  /\ \/ \E symbol \in Symbols : \E data \in HistoryFrames(symbol) : Deliver(symbol, data)
     \/ \E data \in FramesOver("cols", <<"A", "B">>) \cup FramesOver("cols", <<"B">>) :
          /\ Len(data.rows) = 1
          /\ data.rows[1].Date \in Dates
          /\ Deliver("multiple", data)

NextFragments == LoadDataset \/ LoadMasterFromCsv \/ OnFetched \/ ManagerUpdateData

SpecFragments == Init /\ [][NextFragments]_vars

\* ------------------------------------------------- utils.logics' loader
\* main.py's window calls load_dataset with the path of a CSV file
LogicsLoadDataset ==
  \E file \in CalcFiles \cup {MissingFile, EmptyDataFrame, NoDateFrame} :
    LET r == logics_load_dataset(DF_CACHE, file) IN
    /\ DF_CACHE' = r.cache
    /\ load_call' = [file |-> file, before |-> DF_CACHE, out |-> r.out]
    /\ UNCHANGED <<df, symbols, date_range, events, call, ops, calc,
                   data_cache, master_df, mgr_events, fetching, stock_list>>

\* the cache is module state of a process that never unsets it: nothing
\* but load_dataset acts on it
NextLoad == LogicsLoadDataset
SpecLoad == Init /\ [][NextLoad]_vars

\* ------------------------------------------------- the symbol selection
\* the user checks or unchecks an item of the calculator's stock list
CheckStock ==
  /\ InEventLoop
  /\ \E s \in Range(stock_list.items) :
       stock_list' = [stock_list EXCEPT
                        !.checked = IF s \in @ THEN @ \ {s} ELSE @ \cup {s}]
  /\ UNCHANGED <<df, symbols, date_range, events, call, ops, calc,
                 data_cache, master_df, mgr_events, fetching,
                 DF_CACHE, load_call>>

NextWidget == FetchClicked \/ HistoryReturns \/ CheckStock \/ Clear
SpecWidget == Init /\ [][NextWidget]_vars

\* ------------------------------------------------------ numeric cleaning
\* A price cell that read_csv leaves as text is a sequence of characters:
\* digits, the sign, a currency symbol, a space, the thousands separator.
Chars == {"1", "2", "-", "$", " ", ","}
Digits == {"1", "2"}
Texts == SeqsUpTo(Chars, MaxText)

\* what cleaning yields: a float or the missing value
Num(n) == [missing |-> FALSE, value |-> n]
Missing == [missing |-> TRUE, value |-> 0]

\* str.replace(c, '') for every c of cs
Remove(text, cs) == SelectSeq(text, LAMBDA c : c \notin cs)

\* str.strip()
RECURSIVE LStrip(_)
LStrip(text) ==
  IF text # <<>> /\ Head(text) = " " THEN LStrip(Tail(text)) ELSE text

RECURSIVE RStrip(_)
RStrip(text) ==
  IF text # <<>> /\ text[Len(text)] = " "
  THEN RStrip(SubSeq(text, 1, Len(text) - 1)) ELSE text

Strip(text) == RStrip(LStrip(text))

\* the value of a string of digits
RECURSIVE Number(_)
Number(ds) ==
  IF ds = <<>> THEN 0
  ELSE 10 * Number(SubSeq(ds, 1, Len(ds) - 1)) + (IF ds[Len(ds)] = "1" THEN 1 ELSE 2)

\* float(value) inside try/except (ValueError, TypeError): an optional
\* sign and at least one digit, surrounding blanks ignored
python_float(text) ==
  LET t == Strip(text)
      neg == t # <<>> /\ Head(t) = "-"
      ds == IF neg THEN Tail(t) ELSE t
  IN  IF ds # <<>> /\ \A i \in 1..Len(ds) : ds[i] \in Digits
      THEN Num(IF neg THEN 0 - Number(ds) ELSE Number(ds))
      ELSE Missing

\* DataStore._clean_numeric_value on a str cell (lines 215-223)
clean_numeric_text(text) ==
  LET value == Strip(Remove(text, {","}))
  IN  IF value = <<>> THEN Missing ELSE python_float(value)

\* StockCalculator._clean_numeric_value on a str cell (lines 159-167)
calculator_clean_numeric_text(text) ==
  LET value == Strip(Remove(text, {","}))
  IN  IF value = <<>> THEN Missing ELSE python_float(value)

\* utils.logics.load_dataset lines 56-62 on one cell: drop every character
\* outside [0-9.-], then pd.to_numeric(errors='coerce')
logics_clean_text(text) == python_float(Remove(text, {"$", " ", ","}))

CleanNumericValue ==
  \E text \in Texts :
    CalcCall("clean_numeric_value", text, 0, NaT, NaT, clean_numeric_text(text))

CalculatorCleanNumericValue ==
  \E text \in Texts :
    CalcCall("calculator_clean_numeric_value", text, 0, NaT, NaT,
             calculator_clean_numeric_text(text))

LogicsCleanCell ==
  \E text \in Texts :
    CalcCall("logics_clean", text, 0, NaT, NaT, logics_clean_text(text))

NextClean == CleanNumericValue \/ CalculatorCleanNumericValue \/ LogicsCleanCell
SpecClean == Init /\ [][NextClean]_vars

\* ---------------------------------------------------------------- claims
\* the non-missing values a frame holds for symbol s at date d
ValuesAt(f, d, s) ==
  IF s \notin Range(f.cols) THEN {}
  ELSE {f.rows[i].v[s] : i \in {j \in 1..Len(f.rows) : ToDatetime(f.rows[j].Date) = d}}
       \ {NaN, Garbage}

Mutations == {"load_from_csv", "update_data", "merge_with_new_data"}

\* C1 (as claimed): after a successful merge of fragment B into a store that
\* holds a dataset, every cell (d, s) where the old dataset has a non-missing
\* value and B has a different non-missing value holds B's value.
C1_MergeOverwrite ==
  (call.op = "merge_with_new_data" /\ call.ok /\ call.pre.df.kind # "none") =>
    \A d \in Dates : \A s \in Symbols :
      \A x \in ValuesAt(call.pre.df, d, s) :
        (ValuesAt(call.arg, d, s) # {} /\ ValuesAt(call.arg, d, s) # {x}
           /\ Cardinality(ValuesAt(call.arg, d, s)) = 1)
          => ValuesAt(df, d, s) = ValuesAt(call.arg, d, s)

\* C4: a load, update or merge that returns False leaves the dataset, the
\* symbol list and the date range exactly as they were before the call.
C4_FailedMutationUntouched ==
  (call.op \in Mutations /\ ~call.ok) => Fields(Store) = call.pre

\* C4 witness: an update fails on a store that holds a dataset with rows
C4_Witness ==
  /\ call.op = "update_data" /\ ~call.ok
  /\ call.pre.df.kind = "indexed" /\ call.pre.df.rows # <<>>
  /\ call.arg.kind = "nodate" /\ call.arg.rows # <<>>

\* what the metadata of a dataset should be
SymbolsOf(f) == IF f.kind = "none" THEN <<>> ELSE f.cols
DateRangeOf(f) ==
  IF f.kind = "none" \/ f.rows = <<>> THEN <<NoneTs, NoneTs>>
  ELSE IF IndexDates(f) = {} THEN <<NaT, NaT>>
  ELSE <<SetMin(IndexDates(f)), SetMax(IndexDates(f))>>
Consistent(view) ==
  /\ view.symbols = SymbolsOf(view.df)
  /\ view.date_range = DateRangeOf(view.df)

\* C9 (as claimed): whenever a subscriber is notified, and after every
\* mutation returns, symbols is the list of non-date columns of df and
\* date_range is (min, max) of its date index ((None, None) without dates).
C9_MetadataConsistent ==
  /\ Consistent(Fields(Store))
  /\ \A i \in 1..Len(events) : events[i].kind # "error" => Consistent(events[i])

\* C10: a successful mutation emits its data event (loaded for a load,
\* updated for an update or merge) with the new dataset already installed,
\* then symbols_changed, and both within the call.
DataEventOf(op) == IF op = "load_from_csv" THEN "loaded" ELSE "updated"
Lookups == {"get_price_on_date", "get_price_on_or_before"}
Trades == {"compute_trade", "logics_compute_trade"}

\* the dates at which the dataset holds a non-missing price for symbol s
PricedDates(f, s) == {d \in Dates : ValuesAt(f, d, s) # {}}

\* C2 (as claimed): if symbol S has the non-missing price P at date D, a
\* lookup of S for any T from D up to the next date at which S has a price
\* yields P (and the date D, where the lookup returns a date), also when
\* rows between D and T hold no price for S.
C2_AsOfLookup ==
  (calc.fn \in Lookups /\ df.kind = "indexed" /\ calc.stocks[1] \in Range(df.cols)) =>
    \A D \in PricedDates(df, calc.stocks[1]) : \A P \in Prices :
      ( /\ ValuesAt(df, D, calc.stocks[1]) = {P}
        /\ Cardinality(Positions(df, D)) = 1
        /\ D <= calc.purchase_date
        /\ \A E \in PricedDates(df, calc.stocks[1]) : ~(D < E /\ E <= calc.purchase_date) )
      => /\ calc.out.kind = "ok"
         /\ calc.out.price = P
         /\ calc.fn = "get_price_on_or_before" => calc.out.date = D

\* C5: a batch over N distinct symbols returns N entries, each what
\* compute_trade yields for that symbol alone, and never aborts.
C5_BatchIsolation ==
  calc.fn = "compute_multiple_trades" =>
    /\ ~calc.out.raised
    /\ DOMAIN calc.out.results = Range(calc.stocks)
    /\ Cardinality(DOMAIN calc.out.results) = Len(calc.stocks)
    /\ \A s \in Range(calc.stocks) :
         calc.out.results[s] =
           compute_trade(Store, s, calc.quantity, calc.purchase_date, calc.sell_date)

\* C5 witness: a batch of two symbols, one traded and one failed
C5_Witness ==
  /\ calc.fn = "compute_multiple_trades"
  /\ Len(calc.stocks) = 2
  /\ calc.out.results[calc.stocks[1]].kind = "DataError"
  /\ calc.out.results[calc.stocks[2]].kind = "ok"

\* C6 (as claimed): a lookup or a trade for a symbol that is not a column
\* of the dataset fails with InputError, whatever the dates; so does its
\* entry in a batch.
C6_UnknownSymbolInputError ==
  (df.kind = "indexed" /\ calc.fn # "none") =>
    \A i \in 1..Len(calc.stocks) :
      calc.stocks[i] \notin Range(df.cols) =>
        IF calc.fn = "compute_multiple_trades"
        THEN calc.out.results[calc.stocks[i]].kind = "InputError"
        ELSE calc.out.kind = "InputError"

\* C7 (as claimed): a lookup of a known symbol for a date before the first
\* date at which it has a price fails with DataError.
C7_BeforeFirstPriceDataError ==
  ( /\ calc.fn \in Lookups /\ df.kind = "indexed"
    /\ calc.stocks[1] \in Range(df.cols)
    /\ PricedDates(df, calc.stocks[1]) # {}
    /\ calc.purchase_date < SetMin(PricedDates(df, calc.stocks[1])) )
  => calc.out.kind = "DataError"

\* C8 (as claimed): with a dataset spanning [min_date, max_date], a trade
\* whose purchase date is before min_date or whose sell date is after
\* max_date fails with InputError.
C8_RangeClamp ==
  ( /\ calc.fn \in Trades /\ df.kind = "indexed" /\ IndexDates(df) # {}
    /\ \/ calc.purchase_date < SetMin(IndexDates(df))
       \/ calc.sell_date > SetMax(IndexDates(df)) )
  => calc.out.kind = "InputError"

\* -------------------------------------------------- claims: merge paths
ParsedDates(f) == {ToDatetime(f.rows[i].Date) : i \in 1..Len(f.rows)} \ {NaT}

\* the parsed dates of an index are in ascending order
Ascending(f) ==
  \A i \in 1..Len(f.rows) : \A j \in 1..Len(f.rows) :
    (i < j /\ f.rows[i].Date # NaT /\ f.rows[j].Date # NaT)
      => f.rows[i].Date <= f.rows[j].Date

MergePaths == {"merge_with_new_data", "on_data_received"}

\* C3 (as claimed): after a fragment is merged into a store that holds a
\* dataset, a cell the old dataset defines and the fragment does not keeps
\* its value, a cell only the fragment defines takes the fragment's value,
\* and the dates are the ascending union of both sides' dates.
C3_MergeKeepsOneSided ==
  ( /\ call.op \in MergePaths /\ call.ok
    /\ call.pre.df.kind = "indexed" /\ call.pre.df.rows # <<>>
    /\ call.arg.rows # <<>> )
  => /\ \A d \in Dates : \A s \in Symbols :
          /\ ValuesAt(call.arg, d, s) = {}
               => ValuesAt(call.pre.df, d, s) \subseteq ValuesAt(df, d, s)
          /\ ValuesAt(call.pre.df, d, s) = {}
               => ValuesAt(call.arg, d, s) \subseteq ValuesAt(df, d, s)
     /\ IndexDates(df) = IndexDates(call.pre.df) \cup ParsedDates(call.arg)
     /\ Ascending(df)

\* ---------------------------------------------- claims: second series
\* the dataset the store holds after fragment F is merged once more by the
\* path that merged it last
MergedAgain ==
  IF call.op = "merge_with_new_data"
  THEN merge_with_new_data(Store, call.arg).st.df
  ELSE on_data_received(Store, Manager, call.arg, call.sym).store.st.df

\* C11 (as claimed): merging a fragment a second time right after a
\* successful merge of it leaves the dataset as the first merge left it
\* (same dates, same symbols, same cells), for merge_with_new_data, also on
\* an empty store, and for DataManager.update_data with its auto-merge.
C11_MergeIdempotent ==
  (call.op \in MergePaths /\ call.ok) => MergedAgain = df

\* the TradeResults and exceptions the last calculator call yielded
Outcomes ==
  IF calc.fn \in Trades THEN {calc.out}
  ELSE IF calc.fn = "compute_multiple_trades"
       THEN {calc.out.results[s] : s \in DOMAIN calc.out.results}
  ELSE {}

\* C12: every TradeResult of a successful compute has purchase_total =
\* purchase_price * quantity, sell_total = sell_price * quantity and profit =
\* sell_total - purchase_total, for the requested quantity.
C12_TotalsExact ==
  \A r \in Outcomes :
    r.kind = "ok" =>
      /\ r.quantity = calc.quantity
      /\ r.purchase_total = r.purchase_price * r.quantity
      /\ r.sell_total = r.sell_price * r.quantity
      /\ r.profit = r.sell_total - r.purchase_total

\* C12 witness: a trade of two shares bought and sold at different prices
C12_Witness ==
  /\ calc.fn = "compute_trade" /\ calc.out.kind = "ok"
  /\ calc.quantity = 2
  /\ calc.out.purchase_price # calc.out.sell_price
  /\ calc.purchase_date < calc.sell_date

\* C13 (as claimed): the purchase_date and sell_date of a TradeResult are
\* the dates whose prices were used: the dataset holds purchase_price at
\* purchase_date and sell_price at sell_date for the traded symbol.
C13_ActualDates ==
  (df.kind = "indexed") =>
    \A r \in Outcomes :
      r.kind = "ok" =>
        /\ r.purchase_price \in ValuesAt(df, r.purchase_date, r.stock)
        /\ r.sell_price \in ValuesAt(df, r.sell_date, r.stock)

Ingestions == {"load_from_csv", "update_data"}

\* an input has a usable value: a row with a parsable date that holds a
\* number in some symbol column
Usable(f) ==
  \E i \in 1..Len(f.rows) : \E c \in Range(f.cols) :
    ToDatetime(f.rows[i].Date) # NaT /\ clean_numeric_value(f.rows[i].v[c]) # NaN

\* C14 (as claimed): an ingestion fails and leaves the store as it was when
\* the input has no date column, when no row has a parsable date, or when no
\* symbol column keeps a valid value after cleaning; a successful ingestion
\* never installs a dataset of zero rows.
C14_IngestionRejects ==
  call.op \in Ingestions =>
    /\ ~(HasDateColumn(call.arg) /\ Usable(call.arg))
         => (~call.ok /\ Fields(Store) = call.pre)
    /\ call.ok => (df.kind = "indexed" /\ df.rows # <<>>)

\* C15 (as claimed): after a successful load of a master dataset the
\* fragment cache holds fragments only for the symbols of the loaded
\* dataset.
C15_LoadClearsFragments ==
  (call.op = "load_master_from_csv" /\ "merge_completed" \in Range(mgr_events)) =>
    Range(CacheKeys(data_cache)) \subseteq Range(call.arg.cols)

\* the master dataset that a merge of exactly the cached fragments gives
\* (no dataset when nothing usable is cached)
MasterOf(cache) ==
  LET merged == MergeLoop(cache, NoFrame)
  IN  IF merged.kind = "none" THEN NoFrame ELSE FormatMaster(merged)

\* C16 (as claimed): after clear_cache(symbol) for a cached symbol the
\* symbol has no fragment, the master dataset has no column for it and is
\* the merge of exactly the remaining fragments, also when none remains.
C16_DropRemerges ==
  ( /\ call.op = "clear_cache" /\ call.sym # ""
    /\ call.sym \in Range(CacheKeys(call.mpre.data_cache)) )
  => /\ call.sym \notin Range(CacheKeys(data_cache))
     /\ call.sym \notin Range(master_df.cols)
     /\ \/ master_df = MasterOf(data_cache)
        \/ master_df = update_data_argument(MasterOf(data_cache))
        \/ (IsEmpty(master_df) /\ MasterOf(data_cache).kind = "none")

\* C17 (as claimed): after a clear (DataStore.clear, DataManager.clear_cache
\* without symbol) the store holds no dataset, no symbol and the date range
\* (None, None), and no cached fragment and no master dataset remains.
C17_ClearDiscardsAll ==
  (call.op = "clear" \/ (call.op = "clear_cache" /\ call.sym = "")) =>
    /\ df.kind = "none" /\ symbols = <<>> /\ date_range = <<NoneTs, NoneTs>>
    /\ data_cache = <<>> /\ master_df.kind = "none"

EventKinds == {events[i].kind : i \in 1..Len(events)}

\* C18: a load, update or merge that fails returns False, emits exactly
\* one error event and no loaded, updated or symbols-changed event.
C18_FailureReported ==
  (call.op \in Mutations /\ ~call.ok) =>
    /\ Len(events) = 1
    /\ events[1].kind = "error"

\* C18 witness: a merge into a store that holds a dataset fails and
\* reports it
C18_Witness ==
  /\ call.op = "merge_with_new_data" /\ ~call.ok
  /\ call.pre.df.kind = "indexed" /\ call.pre.df.rows # <<>>
  /\ EventKinds = {"error"}

\* C19 (as claimed): a successful mutation, or a clear, emits
\* symbols_changed exactly when the symbol list differs from the list
\* before the call.
C19_SymbolsChangedOnlyOnChange ==
  (call.op \in Mutations \cup {"clear"} /\ call.ok) =>
    ("symbols_changed" \in EventKinds <=> symbols # call.pre.symbols)

\* the earliest violated precondition of the last compute request, in the
\* claimed order: symbol, quantity, order of the dates, range
FirstViolated ==
  IF calc.stocks[1] = "" THEN "symbol"
  ELSE IF calc.quantity <= 0 THEN "quantity"
  ELSE IF calc.purchase_date >= calc.sell_date THEN "order"
  ELSE IF \/ calc.purchase_date < SetMin(IndexDates(df))
          \/ calc.sell_date > SetMax(IndexDates(df))
       THEN "range"
  ELSE "ok"

\* the check that rejected the last compute request
Reported ==
  IF calc.fn = "compute_trade"
  THEN validate_inputs_check(Store, calc.stocks[1], calc.quantity,
                             calc.purchase_date, calc.sell_date)
  ELSE logics_compute_trade_check(df, calc.stocks[1], calc.quantity,
                                  calc.purchase_date, calc.sell_date)

\* C20 (as claimed): a compute request that violates a precondition fails
\* with InputError, and the check that rejects it is the earliest violated
\* one in the order symbol non-empty, quantity positive, purchase date
\* before sell date, dates within the dataset's range.
C20_ValidationOrder ==
  ( /\ calc.fn \in Trades /\ df.kind = "indexed" /\ IndexDates(df) # {}
    /\ FirstViolated # "ok" )
  => /\ calc.out.kind = "InputError"
     /\ Reported = FirstViolated

\* ------------------------------------------------ claims: third series
\* C21 (as claimed): a compute request whose purchase date is equal to or
\* later than its sell date fails with InputError and yields no
\* TradeResult, in a single trade and in every entry of a batch.
C21_PurchaseStrictlyBeforeSell ==
  (calc.fn \in Trades \cup {"compute_multiple_trades"}
     /\ calc.purchase_date >= calc.sell_date) =>
    \A r \in Outcomes : r.kind = "InputError"

\* two frames hold the same non-missing values at the same (date, symbol)
SameValues(f, g) ==
  \A d \in Dates : \A sym \in Symbols : ValuesAt(f, d, sym) = ValuesAt(g, d, sym)

\* C22 (as claimed): whenever the master dataset can be saved, re-ingesting the saved
\* file with load_master_from_csv or with DataStore.load_from_csv succeeds
\* and gives a dataset with the same non-missing values at the same
\* (date, symbol) pairs.
C22_RoundTrip ==
  LET saved == save_master_to_csv(Manager) IN
  saved.ret =>
    /\ SameValues(load_master_from_csv(Manager, saved.file).master_df, master_df)
    /\ load_from_csv(Store, saved.file).ret
    /\ SameValues(load_from_csv(Store, saved.file).st.df, master_df)

\* C23 (as claimed): a master dataset produced by a merge of the cached
\* fragments has a DD-MM-YYYY text as the date of every row and no date in
\* two rows, also when a cached fragment holds a date more than once.
C23_MasterOneRowPerDate ==
  (call.op = "on_data_received" /\ "merge_completed" \in Range(mgr_events)) =>
    /\ master_df.kind = "cols"
    /\ \A i \in 1..Len(master_df.rows) : master_df.rows[i].Date \in Dates
    /\ \A i \in 1..Len(master_df.rows) : \A j \in 1..Len(master_df.rows) :
         master_df.rows[i].Date = master_df.rows[j].Date => i = j

\* every row has a parsed date and the dates increase strictly
StrictlyIncreasing(f) ==
  /\ \A i \in 1..Len(f.rows) : f.rows[i].Date \in Dates
  /\ \A i \in 1..Len(f.rows) : \A j \in 1..Len(f.rows) :
       i < j => f.rows[i].Date < f.rows[j].Date

\* the last row of input f, in input order, whose date parses as d
LastRowOf(f, d) ==
  f.rows[SetMax({i \in 1..Len(f.rows) : ToDatetime(f.rows[i].Date) = d})]

\* C24 (as claimed): after a successful load, update or merge the dates of
\* the dataset increase strictly (no repeated and no unparsed date), and of
\* several input rows with the same date an ingestion keeps the last one.
C24_DatesStrictlyIncreasing ==
  (call.op \in Mutations /\ call.ok) =>
    /\ StrictlyIncreasing(df)
    /\ call.op \in Ingestions =>
         \A d \in ParsedDates(call.arg) :
           \E i \in 1..Len(df.rows) :
             /\ df.rows[i].Date = d
             /\ df.rows[i].v = CleanRow(LastRowOf(call.arg, d)).v

Cleanings == {"clean_numeric_value", "calculator_clean_numeric_value", "logics_clean"}

\* the digits of a text, and whether it denotes one number: at least one
\* digit and no sign except one before the first digit
DigitsOf(text) == SelectSeq(text, LAMBDA c : c \in Digits)
SignsOf(text) == SelectSeq(text, LAMBDA c : c = "-")
FirstDigit(text) == SetMin({i \in 1..Len(text) : text[i] \in Digits})
DenotesNumber(text) ==
  /\ DigitsOf(text) # <<>>
  /\ Len(SignsOf(text)) <= 1
  /\ \A i \in 1..Len(text) : text[i] = "-" => i < FirstDigit(text)

\* C25 (as claimed): cleaning a text cell that denotes a number, with
\* thousands separators or other decoration, yields that number (digits and
\* leading sign kept); a cell without any digit becomes the missing value.
C25_NumericCleaning ==
  calc.fn \in Cleanings =>
    /\ DenotesNumber(calc.stocks) =>
         calc.out = Num(IF SignsOf(calc.stocks) # <<>>
                        THEN 0 - Number(DigitsOf(calc.stocks))
                        ELSE Number(DigitsOf(calc.stocks)))
    /\ DigitsOf(calc.stocks) = <<>> => calc.out = Missing

C26_OwnFrameMerged ==
  /\ call.op = "merge_with_new_data" /\ call.own /\ call.ok
  /\ call.pre.df.rows # <<>>

\* a compute_trade request that passes the checks on its own arguments:
\* a symbol, a positive quantity, purchase date before sell date
ValidRequest ==
  /\ calc.fn = "compute_trade"
  /\ Head(calc.stocks) # "" /\ calc.quantity > 0
  /\ calc.purchase_date < calc.sell_date

\* C27 (as claimed): with no dataset in the store (never loaded, or
\* cleared) a compute_trade with valid arguments fails with DataError, and
\* only in that state does the request skip the range check (the store
\* reports no date range).
C27_NoDatasetIsDataError ==
  ValidRequest =>
    /\ df.kind = "none" => calc.out.kind = "DataError"
    /\ date_range[1] = NoneTs => df.kind = "none"

\* the first half of C27 alone
C27_DataErrorWithoutDataset ==
  (ValidRequest /\ df.kind = "none") => calc.out.kind = "DataError"

\* the second half of C27 for datasets that hold a row
C27_RangeCheckedWithRows ==
  (ValidRequest /\ df.kind # "none" /\ df.rows # <<>>) => date_range[1] # NoneTs

\* a valid request met a store that was cleared
C27_AfterClear ==
  ValidRequest /\ call.op = "clear" /\ call.pre.df.kind # "none"

\* the dataset holds price as a non-missing value of stock at a date that
\* is not after target
HeldUpTo(stock, target, price) ==
  \E d \in Dates : d <= target /\ price \in ValuesAt(df, d, stock)

\* C28: every TradeResult that a single trade (either implementation) or a
\* batch returns has as purchase_price and as sell_price a non-missing
\* value that the dataset holds for the symbol at a date not after the
\* requested purchase, respectively sell, date; so a request for which the
\* dataset holds no such value fails and no default price stands in.
C28_NoDefaultPrice ==
  \A r \in Outcomes :
    r.kind = "ok" =>
      /\ HeldUpTo(r.stock, calc.purchase_date, r.purchase_price)
      /\ HeldUpTo(r.stock, calc.sell_date, r.sell_price)

\* C28 witness: a returned TradeResult whose purchase price was carried
\* forward, the dataset holding no value at the requested purchase date
C28_Witness ==
  /\ calc.fn = "compute_trade" /\ calc.out.kind = "ok"
  /\ ValuesAt(df, calc.purchase_date, calc.out.stock) = {}

\* a valid request in range for which the dataset holds no value up to
\* the purchase date fails
C28_FailsWithoutValue ==
  /\ ValidRequest /\ df.kind = "indexed" /\ calc.out.kind = "DataError"
  /\ validate_inputs(Store, Head(calc.stocks), calc.quantity,
                     calc.purchase_date, calc.sell_date) = "ok"
  /\ Head(calc.stocks) \in Range(df.cols)
  /\ \A d \in Dates : d <= calc.purchase_date => ValuesAt(df, d, Head(calc.stocks)) = {}

\* what the last request with a time of day would have yielded with the
\* same calendar dates at midnight
AtMidnight ==
  IF calc.fn = "compute_trade_at"
  THEN StampDates(compute_trade(Store, Head(calc.stocks), calc.quantity,
                                calc.purchase_date, calc.sell_date))
  ELSE StampDates(logics_compute_trade(df, Head(calc.stocks), calc.quantity,
                                       calc.purchase_date, calc.sell_date))

TimedRequests ==
  {"compute_trade_at", "logics_compute_trade_datetime", "logics_compute_trade_timestamp"}

\* C29 (as claimed): a request whose purchase or sell date carries a time
\* of day yields what the request with the same calendar dates at midnight
\* yields, the same TradeResult or the same error, also when the sell date
\* is the last date of the dataset.
C29_TimeOfDayDiscarded ==
  calc.fn \in TimedRequests => calc.out = AtMidnight

\* the same for utils.logics.compute_trade called with pd.Timestamp values
C29_LogicsTimestamps ==
  calc.fn = "logics_compute_trade_timestamp" => calc.out = AtMidnight

\* the same for the prices and totals of a calculator request whose dates
\* are different days and whose sell date is before the dataset's last
C29_CalculatorInsideRange ==
  ( /\ calc.fn = "compute_trade_at"
    /\ calc.purchase_date # calc.sell_date
    /\ date_range[2] \in Dates => calc.sell_date < date_range[2] )
  => /\ calc.out.kind = AtMidnight.kind
     /\ calc.out.purchase_price = AtMidnight.purchase_price
     /\ calc.out.sell_price = AtMidnight.sell_price
     /\ calc.out.profit = AtMidnight.profit

\* the midnight request for the dataset's last date succeeds while the
\* request with a time of day on that date is refused
C29_LastDayRefused ==
  /\ calc.fn = "compute_trade_at" /\ calc.sell_date = date_range[2]
  /\ calc.tod = <<0, 1>>
  /\ AtMidnight.kind = "ok" /\ calc.out.kind = "InputError"

\* C30 (as claimed): the fetch runs apart from the context that serves the
\* store and the calculator: while a download is in progress a calculator
\* request and a store mutation can still be served, and the store and the
\* manager receive the fragment only when the download has returned.
C30_FetchOffThread ==
  ~InEventLoop => (ENABLED Calculate /\ ENABLED Clear)

\* the last part of C30 alone: starting a fetch changes neither the store
\* nor the manager; they change when the download returns
C30_DeliveredOnceComplete ==
  [][fetching' # "" => UNCHANGED <<df, symbols, date_range, data_cache, master_df>>]_vars

\* a download is in progress while the store holds a dataset
C30_DownloadInProgress ==
  ~InEventLoop /\ df.kind = "indexed"

\* ------------------------------------------------ claims: fourth series
\* a step in which a fetched fragment was hot reloaded into the store
HotReloadStep ==
  /\ ops' = ops + 1
  /\ call'.op = "on_data_received" /\ call'.ok
  /\ \E i \in 1..Len(events') : events'[i].kind = "updated"

\* C31 (as claimed): when a hot reload and the handling of its events are
\* over, every symbol that was checked before it and is still a column of
\* the new dataset is checked in the calculator's stock list.
C31_SelectionKept ==
  [][HotReloadStep =>
       \A s \in stock_list.checked \cap Range(symbols') : s \in stock_list'.checked]_vars

\* what on_data_updated alone leaves: the selection restored, before
\* symbols_changed is handled
C31_RestoredByDataUpdated ==
  [][HotReloadStep =>
       \E i \in 1..Len(events') :
         /\ events'[i].kind = "updated"
         /\ \A s \in stock_list.checked \cap Range(symbols') :
              s \in HandleEvents(stock_list, SubSeq(events', 1, i)).checked]_vars

\* after a hot reload nothing is checked
C31_NothingChecked ==
  [][HotReloadStep => stock_list'.checked = {}]_vars

\* what the other implementation yields for the last single-trade request
\* on the same dataset
OtherPath ==
  IF calc.fn = "compute_trade"
  THEN logics_compute_trade(df, Head(calc.stocks), calc.quantity,
                            calc.purchase_date, calc.sell_date)
  ELSE compute_trade(Store, Head(calc.stocks), calc.quantity,
                     calc.purchase_date, calc.sell_date)

\* C32: for one dataset and one request (symbol, quantity, purchase date,
\* sell date), whenever StockCalculator.compute_trade and
\* utils.logics.compute_trade both return a TradeResult, the two results
\* have the same purchase_price, sell_price, purchase_total, sell_total and
\* profit.
C32_PathsAgree ==
  (calc.fn \in Trades /\ df.kind = "indexed"
     /\ calc.out.kind = "ok" /\ OtherPath.kind = "ok") =>
    /\ calc.out.purchase_price = OtherPath.purchase_price
    /\ calc.out.sell_price = OtherPath.sell_price
    /\ calc.out.purchase_total = OtherPath.purchase_total
    /\ calc.out.sell_total = OtherPath.sell_total
    /\ calc.out.profit = OtherPath.profit

\* C32 witness: both implementations returned a result for a request whose
\* purchase date has no row, with different purchase and sell prices
C32_Witness ==
  /\ calc.fn = "logics_compute_trade" /\ df.kind = "indexed"
  /\ calc.out.kind = "ok" /\ OtherPath.kind = "ok"
  /\ Positions(df, calc.purchase_date) = {}
  /\ calc.out.purchase_price # calc.out.sell_price

\* C33 (as claimed): after DataStore.update_data or merge_with_new_data,
\* successful or failed, the fragment object that the caller passed has the
\* columns and the cell values it had before the call, its Date column
\* included.
C33_FragmentUnchanged ==
  call.op \in {"update_data", "merge_with_new_data"} => call.arg_after = call.arg

\* the same for the calls that fail, and for fragments indexed by date
C33_UnchangedWhenRejected ==
  (call.op \in {"update_data", "merge_with_new_data"}
     /\ (~call.ok \/ ~HasDateColumn(call.arg))) => call.arg_after = call.arg

\* the fragment's symbol columns keep their cells in every call
C33_SymbolCellsUnchanged ==
  call.op \in {"update_data", "merge_with_new_data"} =>
    /\ call.arg_after.cols = call.arg.cols
    /\ Len(call.arg_after.rows) = Len(call.arg.rows)
    /\ \A i \in 1..Len(call.arg.rows) : call.arg_after.rows[i].v = call.arg.rows[i].v

\* the hot reload does the same to the frame the manager keeps as master
C33_MasterParsedByHotReload ==
  /\ call.op = "on_data_received" /\ call.ok
  /\ master_df.kind = "dated" /\ master_df.rows # <<>>

\* the file of the last load_dataset call is one the loader must reject:
\* missing, without Date column, without a date that parses, or without a
\* symbol column that keeps a number
Unloadable(file) ==
  \/ file.kind = "missing" \/ ~HasDateColumn(file)
  \/ Normalize(file).rows = <<>>
  \/ ~Usable(file)

\* C34: the cache of utils.logics.load_dataset is set only by a load that
\* succeeds, and then to the dataset returned; a load that fails (missing
\* file, no Date column, no parsable date, no usable numeric column) raises
\* and leaves it unset; once it is set, every later call returns the
\* cached dataset, whatever file is passed, and reads no file.
C34_LoadCache ==
  load_call.out.kind # "none" =>
    /\ load_call.before.kind = "none" =>
         /\ Unloadable(load_call.file) =>
              load_call.out.kind # "ok" /\ DF_CACHE.kind = "none"
         /\ load_call.out.kind # "ok" => DF_CACHE.kind = "none"
         /\ load_call.out.kind = "ok" =>
              DF_CACHE = load_call.out.df /\ DF_CACHE.kind = "indexed"
         /\ (load_call.file.kind # "missing" /\ HasDateColumn(load_call.file)) =>
              (load_call.out.kind = "DataError" \/ load_call.out.kind = "ok")
    /\ load_call.before.kind # "none" =>
         /\ load_call.out = Loaded("ok", load_call.before, FALSE)
         /\ DF_CACHE = load_call.before

\* C34 witness: with the cache set by an earlier load, a call for a file
\* that cannot be loaded returned the cached dataset
C34_Witness ==
  /\ load_call.before.kind = "indexed" /\ load_call.out.kind = "ok"
  /\ Unloadable(load_call.file)

\* a load of a file with dated rows failed with the cache unset
C34_FailedLoad ==
  /\ load_call.before.kind = "none" /\ load_call.out.kind = "DataError"
  /\ HasDateColumn(load_call.file) /\ Normalize(load_call.file).rows # <<>>

\* C35: DataManager.update_data with an empty fragment changes nothing:
\* the fragment cache and the master dataset are as before, the manager
\* emits no data_updated, merge_completed or error_occurred, and the store
\* is not reloaded.
C35_EmptyIsNoOp ==
  (call.op = "DataManager.update_data" /\ IsEmpty(call.arg)) =>
    /\ data_cache = call.mpre.data_cache
    /\ master_df = call.mpre.master_df
    /\ mgr_events = <<>>
    /\ events = <<>>
    /\ Fields(Store) = call.pre

\* C35 witness: an empty fragment that has the Date column and the column
\* of its symbol was handed to a manager that holds fragments
C35_Witness ==
  /\ call.op = "DataManager.update_data" /\ IsEmpty(call.arg)
  /\ HasDateColumn(call.arg) /\ call.sym \in Range(call.arg.cols)
  /\ call.mpre.data_cache # <<>>

\* the fragment of the last call is not empty and lacks the Date column or
\* the column named after its symbol
InvalidStructure ==
  /\ call.op = "DataManager.update_data" /\ call.sym \in Symbols
  /\ ~IsEmpty(call.arg)
  /\ (~HasDateColumn(call.arg) \/ call.sym \notin Range(call.arg.cols))

C36_NoDateColumn == InvalidStructure /\ ~HasDateColumn(call.arg)

\* the cached fragments that a merge takes (data_manager.py lines 85-92)
ValidCached ==
  {data_cache[i].symbol : i \in {j \in 1..Len(data_cache) :
      /\ ~IsEmpty(data_cache[j].data) /\ HasDateColumn(data_cache[j].data)
      /\ data_cache[j].symbol \in Range(data_cache[j].data.cols)}}

\* the loader delivered a fragment with a row
Delivered == call.op = "on_data_received" /\ ~IsEmpty(call.arg)

\* C37: every fragment with a row that the loader delivers, of one
\* symbol or under the name "multiple", leads to exactly one
\* merge_completed and exactly one DataStore.update_data call, which
\* succeeds; after it the store's symbols are the symbols that have a
\* valid cached fragment.
C37_OneHotReload ==
  Delivered =>
    /\ Cardinality({i \in 1..Len(mgr_events) : mgr_events[i] = "merge_completed"}) = 1
    /\ Cardinality({i \in 1..Len(events) : events[i].kind \in {"updated", "error", "loaded"}}) = 1
    /\ \E i \in 1..Len(events) : events[i].kind = "updated"
    /\ call.ok
    /\ Range(symbols) = ValidCached

\* C37 witness: a "multiple" fragment of two symbols was delivered to a
\* manager that held a fragment already
C37_Witness ==
  /\ Delivered /\ call.sym = "multiple" /\ Len(call.arg.cols) = 2
  /\ call.mpre.data_cache # <<>>
  /\ Cardinality(Range(symbols)) = 2

\* a fragment of one symbol was delivered after one of another symbol
C37_SecondSymbol ==
  /\ Delivered /\ call.sym \in Symbols
  /\ call.mpre.data_cache # <<>>
  /\ call.sym \notin Range(CacheKeys(call.mpre.data_cache))
====
